---- MODULE Spec2Model ----
(***************************************************************************)
(* Render deployment status action: run() of the three variants of main.ts *)
(*   "commitStatus"  commit-status reporter, configurable budget/interval  *)
(*   "deployment"    deployment reporter, log_url is the dashboard URL     *)
(*   "deploymentV1"  deployment reporter, older marker phrase and parser   *)
(* One action per segment of run() between two awaits.  Every outward call *)
(* (provider or source-control platform) is appended to `calls`.           *)
(***************************************************************************)
EXTENDS Integers, Sequences, FiniteSets, TLC

VARIABLES variant, commentBody, maxAttemptsInput, intervalInput,
          pc, identity, data, deploy, recordId, status, attempts,
          deployStatus, calls, outputs, failed, waitTimer, waitMs

vars == <<variant, commentBody, maxAttemptsInput, intervalInput,
          pc, identity, data, deploy, recordId, status, attempts,
          deployStatus, calls, outputs, failed, waitTimer, waitMs>>

(* ------------------------------ bounds --------------------------------- *)
MaxAttemptsInput == 2
MaxDeploys == 2
MaxCreatedAt == 2

(* ------------------------- program constants --------------------------- *)
DefaultMaxAttempts == 100
DefaultInterval == 10000
LegacyInterval == 5000

Variants == {"commitStatus", "deployment", "deploymentV1"}

Undefined == <<>>

(* values of Deploy.status the provider can return; the last two are       *)
(* in-progress values outside the three the code tests for                 *)
ProviderStatuses ==
  {"live", "build_failed", "deactivated", "build_in_progress", "canceled"}

(* ----------------------------- comments -------------------------------- *)
(* A comment body is a sequence of tokens [kind, a, b]:                    *)
(*   phrase  a = the literal lead-in text                                  *)
(*   server  a = a URL matching https://api-pr-[0-9a-z-]+.onrender.com     *)
(*   dash    https://dashboard.render.com/a/b   (b = "" : no id segment)   *)
(*   text    any other text                                                *)
Tok(k, x, y) == [kind |-> k, a |-> x, b |-> y]

NewPhrase == "Your [Render](https://render.com) PR Server URL is "
NewPhraseLower == "your [render](https://render.com) pr server url is "
OldPhrase == "Your Render PR Server URL is "

TServer == Tok("server", "https://api-pr-324-ovto.onrender.com", "")
TDash == Tok("dash", "web", "srv-ci9b")
TDashNoId == Tok("dash", "web", "")
TText == Tok("text", "Looks good to me", "")
TOther == Tok("text", "https://example.com", "")

CommentBodies ==
  { <<>>,
    <<TText>>,
    <<TText, TDash>>,
    <<TServer, TDash>>,
    <<Tok("phrase", NewPhraseLower, ""), TServer, TDash>>,
    <<Tok("phrase", NewPhrase, ""), TServer, TDash>>,
    <<Tok("phrase", OldPhrase, ""), TServer, TDash>>,
    <<Tok("phrase", NewPhrase, ""), TOther, TDash>>,
    <<Tok("phrase", OldPhrase, ""), TOther, TDash>>,
    <<Tok("phrase", NewPhrase, ""), TServer, TText>>,
    <<Tok("phrase", OldPhrase, ""), TServer, TDashNoId>>,
    <<Tok("phrase", NewPhrase, ""), TServer, TDashNoId>> }

(* the text commentBody.includes(...) looks for *)
MarkerPhrase(v) ==
  IF v = "deploymentV1" THEN OldPhrase ELSE NewPhrase

(* variant of IncludesMarker that ignores case *)
IncludesMarkerAnyCase(v, body) ==
  \E i \in 1..Len(body) :
    /\ body[i].kind = "phrase"
    /\ body[i].a \in (IF v = "deploymentV1" THEN {OldPhrase}
                      ELSE {NewPhrase, NewPhraseLower})

(* commentBody.includes(marker) *)
IncludesMarker(v, body) ==
  \E i \in 1..Len(body) :
    body[i].kind = "phrase" /\ body[i].a = MarkerPhrase(v)

(* phrases the case-insensitive lead-in of the server-URL pattern matches *)
LeadIns(v) ==
  IF v = "deploymentV1" THEN {OldPhrase}
  ELSE {NewPhrase, NewPhraseLower, OldPhrase}

ServerMatches(v, body) ==
  { i \in 1..(Len(body) - 1) :
      /\ body[i].kind = "phrase"
      /\ body[i].a \in LeadIns(v)
      /\ body[i + 1].kind = "server" }

DashMatches(body) ==
  { i \in 1..Len(body) :
      body[i].kind = "dash" /\ body[i].a # "" /\ body[i].b # "" }

Min(S) == CHOOSE x \in S : \A y \in S : x <= y

(* variant of DashboardUrlOf with the two path segments exchanged *)
DashboardUrlIdFirst(name, id) == <<"https://dashboard.render.com", id, name>>

DashboardUrlOf(name, id) == <<"https://dashboard.render.com", name, id>>

(* parseCommentBody: [ok, error, serverUrl, serviceName, serviceId,        *)
(* dashboardUrl]; the first missing field decides the error                *)
ParseError(msg) ==
  [ok |-> FALSE, error |-> msg, serverUrl |-> Undefined,
   serviceName |-> "", serviceId |-> "", dashboardUrl |-> Undefined]

ParseOk(server, name, id) ==
  [ok |-> TRUE, error |-> "", serverUrl |-> <<server>>,
   serviceName |-> name, serviceId |-> id,
   dashboardUrl |-> DashboardUrlOf(name, id)]

parseCommentBody(v, body) ==
  IF v = "deploymentV1"
  THEN IF DashMatches(body) = {}
       THEN ParseError("No service name or ID found")
       ELSE IF ServerMatches(v, body) = {}
            THEN ParseError("No server URL found")
            ELSE ParseOk(body[Min(ServerMatches(v, body)) + 1].a,
                         body[Min(DashMatches(body))].a,
                         body[Min(DashMatches(body))].b)
  ELSE IF ServerMatches(v, body) = {}
       THEN ParseError("No server URL found")
       ELSE IF DashMatches(body) = {}
            THEN ParseError("No service name found")
            ELSE IF body[Min(DashMatches(body))].b = ""
                 THEN ParseError("No service ID found")
                 ELSE ParseOk(body[Min(ServerMatches(v, body)) + 1].a,
                              body[Min(DashMatches(body))].a,
                              body[Min(DashMatches(body))].b)

NoIdentity == ParseError("")

(* ------------------------------ deploys -------------------------------- *)
DeployIdNames == <<"dep-a", "dep-b", "dep-c", "dep-d">>

DeployIds == { DeployIdNames[i] : i \in 1..MaxDeploys }

Deploys ==
  [id : DeployIds, createdAt : 1..MaxCreatedAt, status : ProviderStatuses]

NoDeploy == [id |-> "", createdAt |-> 0, status |-> ""]

DeployLists ==
  UNION { { d \in [1..n -> Deploys] :
              \A i, j \in 1..n : i # j => d[i].id # d[j].id } :
          n \in 0..MaxDeploys }

(* data.sort((a, b) => time(b.createdAt) - time(a.createdAt)): stable,    *)
(* newest first                                                            *)
RECURSIVE InsertDesc(_, _)
InsertDesc(x, s) ==
  IF s = <<>> THEN <<x>>
  ELSE IF x.createdAt - s[1].createdAt > 0
       THEN <<x>> \o s
       ELSE <<s[1]>> \o InsertDesc(x, Tail(s))

(* variant of SortNewestFirst that leaves the list as fetched *)
SortAsFetched(s) == s

RECURSIVE SortNewestFirst(_)
SortNewestFirst(s) ==
  IF s = <<>> THEN <<>>
  ELSE InsertDesc(s[Len(s)], SortNewestFirst(SubSeq(s, 1, Len(s) - 1)))

(* --------------------------- event context ----------------------------- *)
ContextSha == "sha-head"
StatusId == "status-1"
DeploymentId == "deployment-1"

(* core.getInput(name): <<>> when the input is not set, <<n>> otherwise *)
MaxAttemptsInputs == {<<>>} \cup { <<n>> : n \in 0..MaxAttemptsInput }
IntervalInputs == {<<>>, <<250>>}

(* ------------------------------ helpers -------------------------------- *)
Call(api, key, state, target, log, env, desc, ok) ==
  [api |-> api, key |-> key, sha |-> IF api = "createCommitStatus"
                                      THEN ContextSha ELSE "",
   state |-> state, target_url |-> target, log_url |-> log,
   environment_url |-> env, description |-> desc, ok |-> ok,
   error |-> ""]

(* messages of the errors the HTTP clients throw *)
UpstreamErrors == {"Request failed with status code 500", "Network Error"}

(* the call that threw the error msg *)
Thrown(c, msg) == [c EXCEPT !.error = msg]

Output(name, value) == [name |-> name, value |-> value]

(* context: `Render - ${serviceName} - ${deploy.id}` *)
StatusContext(idn, d) == <<"Render", idn.serviceName, d.id>>

(* attempts > (getInput('max-attempts') ? Number(...) : 100); the          *)
(* deployment variants compare with the literal 100                        *)
MaxAttemptsOf(v, input) ==
  IF v = "commitStatus" /\ input # <<>> THEN input[1]
  ELSE DefaultMaxAttempts

(* variant of BudgetExceeded with >= in place of > *)
BudgetExceededAtLimit(v, input, n) == n >= MaxAttemptsOf(v, input)

BudgetExceeded(v, input, n) == n > MaxAttemptsOf(v, input)

(* wait(getInput('interval') ? Number(...) : 10_000), wait(5000) *)
IntervalOf(v, input) ==
  IF v = "commitStatus"
  THEN IF input # <<>> THEN input[1] ELSE DefaultInterval
  ELSE LegacyInterval

(* variant of MapStatus without the line for deactivated *)
MapStatusNoDeactivated(v, cur, fetched) ==
  LET s1 == IF fetched = "live" THEN "success" ELSE cur
  IN IF fetched = "build_failed" THEN "failure" ELSE s1

(* the three `if (deployStatus.status === ...) status = ...` lines *)
MapStatus(v, cur, fetched) ==
  LET s1 == IF fetched = "live" THEN "success" ELSE cur
      s2 == IF fetched = "build_failed" THEN "failure" ELSE s1
  IN IF fetched = "deactivated"
     THEN (IF v = "commitStatus" THEN "error" ELSE "inactive")
     ELSE s2

(* variant of InLoopReport that reports the state pending in every        *)
(* iteration                                                               *)
InLoopReportAlwaysPending(v, idn, d, st, fetched, ok) ==
  IF v = "commitStatus"
  THEN Call("createCommitStatus", StatusContext(idn, d), "pending",
            idn.dashboardUrl, Undefined, Undefined, "", ok)
  ELSE Call("createDeploymentStatus", <<DeploymentId>>, "pending",
            Undefined, idn.dashboardUrl, Undefined, "", ok)

(* the report made in every iteration, right after the fetch *)
InLoopReport(v, idn, d, st, fetched, ok) ==
  IF v = "commitStatus"
  THEN Call("createCommitStatus", StatusContext(idn, d), st,
            IF d.status = "live" THEN idn.serverUrl ELSE idn.dashboardUrl,
            Undefined, Undefined,
            IF fetched = "build_failed" THEN "Build failed" ELSE "",
            ok)
  ELSE Call("createDeploymentStatus", <<DeploymentId>>, st,
            Undefined,
            IF v = "deployment" THEN idn.dashboardUrl
            ELSE IF d.status = "build_failed" THEN idn.serverUrl
                 ELSE Undefined,
            IF d.status = "live" THEN idn.serverUrl ELSE Undefined,
            IF d.status = "build_failed" THEN "Build failed" ELSE "",
            ok)

(* variant of ExceededReport with the description of a failed deploy *)
ExceededReportAsDeployFailed(v, idn, d, ok) ==
  IF v = "commitStatus"
  THEN Call("createCommitStatus", StatusContext(idn, d), "failure",
            idn.dashboardUrl, Undefined, Undefined, "Deploy failed", ok)
  ELSE Call("createDeploymentStatus", <<DeploymentId>>, "failure",
            Undefined, Undefined, Undefined, "Deploy failed", ok)

(* the report of the exhausted budget *)
ExceededReport(v, idn, d, ok) ==
  IF v = "commitStatus"
  THEN Call("createCommitStatus", StatusContext(idn, d), "failure",
            idn.dashboardUrl, Undefined, Undefined,
            "Exceeded max number of attempts", ok)
  ELSE Call("createDeploymentStatus", <<DeploymentId>>, "failure",
            Undefined, Undefined, Undefined,
            "Exceeded max number of attempts", ok)

(* variant of ConfirmReport that repeats the state of the initial record *)
ConfirmReportAsPending(idn, d, st, ok) ==
  Call("createCommitStatus", StatusContext(idn, d), "pending",
       idn.dashboardUrl, Undefined, Undefined,
       IF st = "success" THEN "Deploy succeeded" ELSE "Deploy failed",
       ok)

(* variant of ConfirmReport that writes under a context of its own *)
ConfirmReportOwnContext(idn, d, st, ok) ==
  Call("createCommitStatus", <<"Render", idn.serviceName, "confirm">>, st,
       idn.dashboardUrl, Undefined, Undefined,
       IF st = "success" THEN "Deploy succeeded" ELSE "Deploy failed",
       ok)

(* the second report of the commit-status variant on success / failure *)
ConfirmReport(idn, d, st, ok) ==
  Call("createCommitStatus", StatusContext(idn, d), st,
       idn.dashboardUrl, Undefined, Undefined,
       IF st = "success" THEN "Deploy succeeded" ELSE "Deploy failed",
       ok)

(* the creation of the record: the first pending commit status, or the     *)
(* deployment                                                              *)
InitialRecord(v, idn, d, ok) ==
  IF v = "commitStatus"
  THEN Call("createCommitStatus", StatusContext(idn, d), "pending",
            idn.dashboardUrl, Undefined, Undefined,
            "Preview deployment on Render", ok)
  ELSE Call("createDeployment", <<"preview">>, "", Undefined, Undefined,
            Undefined, "Preview deployment on Render", ok)

(* ------------------------------- Init ---------------------------------- *)
Init ==
  /\ variant \in Variants
  /\ commentBody \in CommentBodies
  /\ maxAttemptsInput \in MaxAttemptsInputs
  /\ intervalInput \in IntervalInputs
  /\ (variant # "commitStatus" =>
        maxAttemptsInput = <<>> /\ intervalInput = <<>>)
  /\ pc = "start"
  /\ identity = NoIdentity
  /\ data = <<>>
  /\ deploy = NoDeploy
  /\ recordId = ""
  /\ status = "pending"
  /\ attempts = 0
  /\ deployStatus = ""
  /\ calls = <<>>
  /\ outputs = <<>>
  /\ failed = <<>>
  /\ waitTimer = "idle"
  /\ waitMs = 0

(* variant of Fail that reports a fixed text in place of error.message *)
FailWithFixedText(msg) ==
  /\ failed' = Append(failed, "Action failed")
  /\ pc' = "failed"

(* catch (error) { core.setFailed(error.message) } *)
Fail(msg) ==
  /\ failed' = Append(failed, msg)
  /\ pc' = "failed"

(* from the entry of run() to the first await *)
Start ==
  /\ pc = "start"
  /\ IF commentBody = <<>>
     THEN /\ Fail("No comment body found")
          /\ UNCHANGED <<identity, outputs>>
     ELSE IF ~IncludesMarker(variant, commentBody)
     THEN /\ pc' = "skipped"
          /\ UNCHANGED <<identity, outputs, failed>>
     ELSE LET r == parseCommentBody(variant, commentBody)
          IN IF ~r.ok
             THEN /\ Fail(r.error)
                  /\ UNCHANGED <<identity, outputs>>
             ELSE /\ identity' = r
                  /\ outputs' =
                       IF variant = "deploymentV1" THEN outputs
                       ELSE outputs \o
                            << Output("server-url", r.serverUrl),
                               Output("service-name", <<r.serviceName>>),
                               Output("service-id", <<r.serviceId>>),
                               Output("dashboard-url", r.dashboardUrl) >>
                  /\ pc' = "list"
                  /\ UNCHANGED failed
  /\ UNCHANGED <<data, variant, commentBody, maxAttemptsInput, intervalInput,
                 deploy, recordId, status, attempts, deployStatus, calls,
                 waitTimer, waitMs>>

ListCall(ok) ==
  Call("render.listDeploys", <<identity.serviceId>>, "", Undefined,
       Undefined, Undefined, "", ok)

(* variant of ListDeploys without the emptiness check: destructuring the  *)
(* first element of an empty list throws a TypeError                       *)
ListDeploysNoEmptyCheck ==
  /\ pc = "list"
  /\ \/ /\ \E msg \in UpstreamErrors :
             /\ calls' = Append(calls, Thrown(ListCall(FALSE), msg))
             /\ Fail(msg)
        /\ UNCHANGED <<data, deploy>>
     \/ \E d \in DeployLists :
          /\ calls' = Append(calls, ListCall(TRUE))
          /\ data' = d
          /\ IF Len(d) = 0
             THEN /\ Fail("Cannot destructure property 'deploy' of undefined")
                  /\ UNCHANGED deploy
             ELSE /\ deploy' = SortNewestFirst(d)[1]
                  /\ pc' = "create"
                  /\ UNCHANGED failed
  /\ UNCHANGED <<variant, commentBody, maxAttemptsInput, intervalInput,
                 identity, recordId, status, attempts, deployStatus,
                 outputs, waitTimer, waitMs>>

(* render.get(`/services/${serviceId}/deploys?limit=20`) returns; the      *)
(* newest deploy is selected                                               *)
ListDeploys ==
  /\ pc = "list"
  /\ \/ /\ \E msg \in UpstreamErrors :
             /\ calls' = Append(calls, Thrown(ListCall(FALSE), msg))
             /\ Fail(msg)
        /\ UNCHANGED <<data, deploy>>
     \/ \E d \in DeployLists :
          /\ calls' = Append(calls, ListCall(TRUE))
          /\ data' = d
          /\ IF Len(d) = 0
             THEN /\ Fail("No deploys found")
                  /\ UNCHANGED deploy
             ELSE /\ deploy' = SortNewestFirst(d)[1]
                  /\ pc' = "create"
                  /\ UNCHANGED failed
  /\ UNCHANGED <<variant, commentBody, maxAttemptsInput, intervalInput,
                 identity, recordId, status, attempts, deployStatus,
                 outputs, waitTimer, waitMs>>

(* variant of CreateRecord that enters the loop without creating the      *)
(* record                                                                  *)
CreateRecordSkipped ==
  /\ pc = "create"
  /\ data' = <<>>
  /\ recordId' = IF variant = "commitStatus" THEN StatusId ELSE DeploymentId
  /\ status' = "pending"
  /\ attempts' = 0
  /\ pc' = "loop"
  /\ UNCHANGED <<variant, commentBody, maxAttemptsInput, intervalInput,
                 identity, deploy, deployStatus, waitTimer, waitMs, calls,
                 outputs, failed>>

(* createCommitStatus / createDeployment returns; status and attempts are  *)
(* initialised                                                             *)
CreateRecord ==
  /\ pc = "create"
  /\ data' = <<>>
  /\ \/ /\ \E msg \in UpstreamErrors :
         /\ calls' = Append(calls,
              Thrown(InitialRecord(variant, identity, deploy, FALSE), msg))
         /\ Fail(msg)
        /\ UNCHANGED <<recordId, outputs, status, attempts>>
     \/ /\ variant # "commitStatus"
        /\ calls' = Append(calls, InitialRecord(variant, identity, deploy, TRUE))
        /\ Fail("No deployment ID found")
        /\ UNCHANGED <<recordId, outputs, status, attempts>>
     \/ /\ calls' = Append(calls, InitialRecord(variant, identity, deploy, TRUE))
        /\ recordId' = IF variant = "commitStatus" THEN StatusId
                       ELSE DeploymentId
        /\ outputs' = Append(outputs,
                        IF variant = "commitStatus"
                        THEN Output("status-id", <<StatusId>>)
                        ELSE Output("deployment-id", <<DeploymentId>>))
        /\ status' = "pending"
        /\ attempts' = 0
        /\ pc' = "loop"
        /\ UNCHANGED failed
  /\ UNCHANGED <<variant, commentBody, maxAttemptsInput, intervalInput,
                 identity, deploy, deployStatus, waitTimer, waitMs>>

(* top of the loop with the budget exhausted: one failure report, return *)
ExceedBudget ==
  /\ pc = "loop"
  /\ status = "pending"
  /\ BudgetExceeded(variant, maxAttemptsInput, attempts)
  /\ \/ /\ \E msg \in UpstreamErrors :
         /\ calls' = Append(calls,
              Thrown(ExceededReport(variant, identity, deploy, FALSE), msg))
         /\ Fail(msg)
     \/ /\ calls' = Append(calls, ExceededReport(variant, identity, deploy, TRUE))
        /\ pc' = "exhausted"
        /\ UNCHANGED failed
  /\ UNCHANGED <<data, variant, commentBody, maxAttemptsInput, intervalInput,
                 identity, deploy, recordId, status, attempts, deployStatus,
                 outputs, waitTimer, waitMs>>

FetchCall(ok) ==
  Call("render.getDeploy", <<identity.serviceId, deploy.id>>, "", Undefined,
       Undefined, Undefined, "", ok)

(* variant of FetchStatus that reports only a change of the outcome: a     *)
(* fetch that leaves the outcome pending goes on to the next iteration     *)
FetchStatusReportsOnChange ==
  /\ pc = "loop"
  /\ status = "pending"
  /\ ~BudgetExceeded(variant, maxAttemptsInput, attempts)
  /\ \/ /\ \E msg \in UpstreamErrors :
             /\ calls' = Append(calls, Thrown(FetchCall(FALSE), msg))
             /\ Fail(msg)
        /\ UNCHANGED <<deployStatus, status, attempts, waitTimer, waitMs>>
     \/ \E fetched \in ProviderStatuses :
          /\ calls' = Append(calls, FetchCall(TRUE))
          /\ status' = MapStatus(variant, status, fetched)
          /\ UNCHANGED failed
          /\ IF status' = "pending"
             THEN /\ deployStatus' = ""
                  /\ attempts' = attempts + 1
                  /\ waitTimer' = "running"
                  /\ waitMs' = IntervalOf(variant, intervalInput)
                  /\ pc' = "loop"
             ELSE /\ deployStatus' = fetched
                  /\ pc' = "report"
                  /\ UNCHANGED <<attempts, waitTimer, waitMs>>
  /\ UNCHANGED <<data, variant, commentBody, maxAttemptsInput, intervalInput,
                 identity, deploy, recordId, outputs>>

(* top of the loop within the budget: fetch the deploy, map its status *)
FetchStatus ==
  /\ pc = "loop"
  /\ status = "pending"
  /\ ~BudgetExceeded(variant, maxAttemptsInput, attempts)
  /\ \/ /\ \E msg \in UpstreamErrors :
         /\ calls' = Append(calls,
              Thrown(FetchCall(FALSE), msg))
         /\ Fail(msg)
        /\ UNCHANGED <<deployStatus, status>>
     \/ \E fetched \in ProviderStatuses :
          /\ calls' = Append(calls, FetchCall(TRUE))
          /\ deployStatus' = fetched
          /\ status' = MapStatus(variant, status, fetched)
          /\ pc' = "report"
          /\ UNCHANGED failed
  /\ UNCHANGED <<data, variant, commentBody, maxAttemptsInput, intervalInput,
                 identity, deploy, recordId, attempts, outputs,
                 waitTimer, waitMs>>

(* variant of ReportStatus that sets the terminal output right after the   *)
(* in-loop report in every variant                                         *)
ReportStatusOutputsEarly ==
  /\ pc = "report"
  /\ \/ /\ \E msg \in UpstreamErrors :
             /\ calls' = Append(calls,
                  Thrown(InLoopReport(variant, identity, deploy, status,
                                      deployStatus, FALSE), msg))
             /\ Fail(msg)
        /\ UNCHANGED <<attempts, waitTimer, waitMs, outputs, deployStatus>>
     \/ /\ calls' = Append(calls, InLoopReport(variant, identity, deploy,
                                               status, deployStatus, TRUE))
        /\ deployStatus' = ""
        /\ UNCHANGED failed
        /\ IF status = "pending"
           THEN /\ attempts' = attempts + 1
                /\ waitTimer' = "running"
                /\ waitMs' = IntervalOf(variant, intervalInput)
                /\ pc' = "loop"
                /\ UNCHANGED outputs
           ELSE IF status \in {"success", "failure"}
           THEN /\ outputs' = Append(outputs, Output(status, <<status>>))
                /\ pc' = IF variant = "commitStatus" THEN "confirm"
                         ELSE "returned"
                /\ UNCHANGED <<attempts, waitTimer, waitMs>>
           ELSE /\ pc' = "returned"
                /\ UNCHANGED <<attempts, waitTimer, waitMs, outputs>>
  /\ UNCHANGED <<data, variant, commentBody, maxAttemptsInput, intervalInput,
                 identity, deploy, recordId, status>>

(* variant of ReportStatus that awaits, while pending, a timer that        *)
(* nothing fires                                                            *)
ReportStatusAwaitsLostTimer ==
  /\ pc = "report"
  /\ \/ /\ \E msg \in UpstreamErrors :
             /\ calls' = Append(calls,
                  Thrown(InLoopReport(variant, identity, deploy, status,
                                      deployStatus, FALSE), msg))
             /\ Fail(msg)
        /\ UNCHANGED <<attempts, waitTimer, waitMs, outputs, deployStatus>>
     \/ /\ calls' = Append(calls, InLoopReport(variant, identity, deploy,
                                               status, deployStatus, TRUE))
        /\ deployStatus' = ""
        /\ UNCHANGED failed
        /\ IF status = "pending"
           THEN /\ attempts' = attempts + 1
                /\ pc' = "waiting"
                /\ UNCHANGED <<waitTimer, waitMs, outputs>>
           ELSE IF status \in {"success", "failure"}
           THEN IF variant = "commitStatus"
                THEN /\ pc' = "confirm"
                     /\ UNCHANGED <<attempts, waitTimer, waitMs, outputs>>
                ELSE /\ outputs' = Append(outputs, Output(status, <<status>>))
                     /\ pc' = "returned"
                     /\ UNCHANGED <<attempts, waitTimer, waitMs>>
           ELSE /\ pc' = "returned"
                /\ UNCHANGED <<attempts, waitTimer, waitMs, outputs>>
  /\ UNCHANGED <<data, variant, commentBody, maxAttemptsInput, intervalInput,
                 identity, deploy, recordId, status>>

(* the in-loop report returns; then the rest of the iteration up to the    *)
(* next await or return                                                    *)
ReportStatus ==
  /\ pc = "report"
  /\ \/ /\ \E msg \in UpstreamErrors :
         /\ calls' = Append(calls,
              Thrown(InLoopReport(variant, identity, deploy, status, deployStatus, FALSE), msg))
         /\ Fail(msg)
        /\ UNCHANGED <<attempts, waitTimer, waitMs, outputs, deployStatus>>
     \/ /\ calls' = Append(calls, InLoopReport(variant, identity, deploy,
                                               status, deployStatus, TRUE))
        /\ deployStatus' = ""
        /\ UNCHANGED failed
        /\ IF status = "pending"
           THEN /\ attempts' = attempts + 1
                /\ waitTimer' = "running"
                /\ waitMs' = IntervalOf(variant, intervalInput)
                /\ pc' = "loop"
                /\ UNCHANGED outputs
           ELSE IF status \in {"success", "failure"}
           THEN IF variant = "commitStatus"
                THEN /\ pc' = "confirm"
                     /\ UNCHANGED <<attempts, waitTimer, waitMs, outputs>>
                ELSE /\ outputs' = Append(outputs, Output(status, <<status>>))
                     /\ pc' = "returned"
                     /\ UNCHANGED <<attempts, waitTimer, waitMs>>
           ELSE /\ pc' = "returned"
                /\ UNCHANGED <<attempts, waitTimer, waitMs, outputs>>
  /\ UNCHANGED <<data, variant, commentBody, maxAttemptsInput, intervalInput,
                 identity, deploy, recordId, status>>

(* variant of ConfirmStatus that returns without core.setOutput *)
ConfirmStatusNoOutput ==
  /\ pc = "confirm"
  /\ \/ /\ \E msg \in UpstreamErrors :
         /\ calls' = Append(calls,
              Thrown(ConfirmReport(identity, deploy, status, FALSE), msg))
         /\ Fail(msg)
     \/ /\ calls' = Append(calls, ConfirmReport(identity, deploy, status, TRUE))
        /\ pc' = "returned"
        /\ UNCHANGED failed
  /\ UNCHANGED <<data, variant, commentBody, maxAttemptsInput, intervalInput,
                 identity, deploy, recordId, status, attempts, deployStatus,
                 outputs, waitTimer, waitMs>>

(* commit-status variant: the second report on success / failure returns,  *)
(* the terminal output is set, run() returns                               *)
ConfirmStatus ==
  /\ pc = "confirm"
  /\ \/ /\ \E msg \in UpstreamErrors :
         /\ calls' = Append(calls,
              Thrown(ConfirmReport(identity, deploy, status, FALSE), msg))
         /\ Fail(msg)
        /\ UNCHANGED outputs
     \/ /\ calls' = Append(calls, ConfirmReport(identity, deploy, status, TRUE))
        /\ outputs' = Append(outputs, Output(status, <<status>>))
        /\ pc' = "returned"
        /\ UNCHANGED failed
  /\ UNCHANGED <<data, variant, commentBody, maxAttemptsInput, intervalInput,
                 identity, deploy, recordId, status, attempts, deployStatus,
                 waitTimer, waitMs>>

(* the timer of the latest wait() call fires; nothing awaits it *)
TimerExpire ==
  /\ waitTimer = "running"
  /\ waitTimer' = "idle"
  /\ UNCHANGED <<data, variant, commentBody, maxAttemptsInput, intervalInput,
                 pc, identity, deploy, recordId, status, attempts,
                 deployStatus, calls, outputs, failed, waitMs>>

Next ==
  \/ Start
  \/ ListDeploys
  \/ CreateRecord
  \/ ExceedBudget
  \/ FetchStatus
  \/ ReportStatus
  \/ ConfirmStatus
  \/ TimerExpire

Spec == Init /\ [][Next]_vars

(* ------------------------ observers of a run --------------------------- *)
(* the steps of run(): every awaited call returns or throws *)
RunStep ==
  \/ Start
  \/ ListDeploys
  \/ CreateRecord
  \/ ExceedBudget
  \/ FetchStatus
  \/ ReportStatus
  \/ ConfirmStatus

FairSpec == Init /\ [][Next]_vars /\ WF_vars(RunStep)

IsReport(c) ==
  c.api \in {"createCommitStatus", "createDeploymentStatus"} /\ c.ok

IsFetch(c) == c.api = "render.getDeploy"

ReportIdx == { i \in 1..Len(calls) : IsReport(calls[i]) }
FetchIdx == { i \in 1..Len(calls) : IsFetch(calls[i]) }

(* the reports that directly follow a status fetch *)
InLoopIdx == { i \in ReportIdx : i > 1 /\ IsFetch(calls[i - 1]) }

NumFetches == Cardinality(FetchIdx)

LastCall == calls[Len(calls)]

ExceededText == "Exceeded max number of attempts"

TerminalStates == {"success", "failure", "error", "inactive"}

(* the URL a report points the reader to *)
UrlsOf(c) == {c.target_url, c.log_url, c.environment_url} \ {Undefined}

(* ------------------------------- C1 ------------------------------------ *)
(* C1: when the attempt counter has exceeded the budget at the top of the  *)
(* loop, the only step is the report with state failure and description    *)
(* 'Exceeded max number of attempts'; once it is written the run has       *)
(* returned: it is the only such report, it stays the last call (no fetch, *)
(* no report after it) and the invocation is not marked failed.            *)
C1_BudgetExhaustionReportsFailureOnce ==
  [][ /\ ( /\ pc = "loop"
           /\ attempts > (IF variant = "commitStatus" /\ maxAttemptsInput # <<>>
                          THEN maxAttemptsInput[1] ELSE 100)
           /\ pc' # pc )
        => /\ pc' \in {"exhausted", "failed"}
           /\ Len(calls') = Len(calls) + 1
           /\ calls'[Len(calls')].state = "failure"
           /\ calls'[Len(calls')].description = ExceededText
           /\ (pc' = "exhausted") = calls'[Len(calls')].ok
      /\ (pc' = "exhausted")
        => /\ IsReport(calls'[Len(calls')])
           /\ calls'[Len(calls')].state = "failure"
           /\ calls'[Len(calls')].description = ExceededText
           /\ Cardinality({ i \in 1..Len(calls') :
                              calls'[i].description = ExceededText }) = 1
           /\ failed' = <<>>
           /\ status' = "pending"
      /\ (pc = "exhausted")
        => /\ pc' = "exhausted"
           /\ UNCHANGED <<calls, outputs, failed>> ]_vars

C1_Witness ==
  /\ pc = "exhausted"
  /\ NumFetches > 100
  /\ LastCall.description = ExceededText

(* ------------------------------- C2 ------------------------------------ *)
(* C2: attempts is 0 when the loop is entered, grows by exactly 1 in each  *)
(* iteration whose fetched status is non-terminal and is otherwise left    *)
(* alone; a run that ends by budget exhaustion has made exactly            *)
(* maxAttempts + 1 status fetches.                                         *)
C2_AttemptsCountAndFetchesBeforeExhaustion ==
  [][ /\ (pc = "create" /\ pc' = "loop") => attempts' = 0
      /\ (pc = "report" /\ pc' = "loop")
           => status = "pending" /\ attempts' = attempts + 1
      /\ (pc = "report" /\ status = "pending" /\ pc' # "failed" /\ pc' # pc)
           => pc' = "loop" /\ attempts' = attempts + 1
      /\ ~(pc = "report" /\ pc' = "loop") => attempts' = attempts
      /\ (pc' = "exhausted")
           => NumFetches' =
                (IF variant = "commitStatus" /\ maxAttemptsInput # <<>>
                 THEN maxAttemptsInput[1] ELSE 100) + 1 ]_vars

C2_Witness ==
  /\ pc = "exhausted"
  /\ maxAttemptsInput = <<2>>
  /\ NumFetches = 3
  /\ attempts = 3

(* ------------------------------- C3 ------------------------------------ *)
(* C3: after the mapping of an iteration the outcome is success for live,  *)
(* failure for build_failed, error (commit status) or inactive             *)
(* (deployment) for deactivated, and pending for every other status; the   *)
(* in-loop report of that iteration carries that outcome.                  *)
C3_StatusMapping ==
  [][ /\ (pc' = "report")
        => /\ deployStatus' = "live" => status' = "success"
           /\ deployStatus' = "build_failed" => status' = "failure"
           /\ deployStatus' = "deactivated"
                => status' = (IF variant = "commitStatus" THEN "error"
                              ELSE "inactive")
           /\ deployStatus' \notin {"live", "build_failed", "deactivated"}
                => status' = "pending"
      /\ (pc = "report" /\ pc' # pc)
        => /\ status' = status
           /\ calls'[Len(calls')].state = status ]_vars

C3_Witness ==
  /\ pc = "report"
  /\ deployStatus = "deactivated"
  /\ status \in {"error", "inactive"}
  /\ attempts > 0

(* ------------------------------- C4 ------------------------------------ *)
(* C4: the outcome starts pending; once it is terminal it never changes    *)
(* again; and no report with state pending is written after a report with  *)
(* a terminal state.                                                       *)
C4_OutcomeOnlyMovesForward ==
  [][ /\ (pc = "create" /\ pc' = "loop") => status' = "pending"
      /\ status # "pending" => status' = status
      /\ status' \in {"pending"} \cup TerminalStates
      /\ ( /\ Len(calls') > Len(calls)
           /\ IsReport(calls'[Len(calls')])
           /\ calls'[Len(calls')].state = "pending" )
        => \A i \in ReportIdx : calls[i].state = "pending" ]_vars

C4_Witness ==
  /\ pc = "returned"
  /\ status = "failure"
  /\ \E i, j \in ReportIdx :
       i < j /\ calls[i].state = "pending" /\ calls[j].state = "failure"

(* ------------------------------- C5 ------------------------------------ *)
NumInLoop(st) == Cardinality({ i \in InLoopIdx : calls[i].state = st })
NumReports(st) == Cardinality({ i \in ReportIdx : calls[i].state = st })

(* C5 as stated: a run of n non-terminal statuses followed by live writes  *)
(* n pending updates, exactly one success update, and fetches nothing      *)
(* after the success update.                                               *)
C5_Original ==
  (pc = "returned" /\ status = "success")
    => /\ NumInLoop("pending") = NumFetches - 1
       /\ NumReports("success") = 1
       /\ \A i \in FetchIdx : \A j \in ReportIdx :
            calls[j].state = "success" => i < j

(* C5: a run of n non-terminal statuses followed by live writes one        *)
(* pending update after each non-terminal fetch (n in total, next to the   *)
(* initial pending record of the commit-status variant), then the success  *)
(* state once in the deployment variants and twice in the commit-status    *)
(* variant (the in-loop report and the confirming one), and fetches        *)
(* nothing after the first success update.                                 *)
C5_PendingPerStepThenSuccess ==
  (pc = "returned" /\ status = "success")
    => /\ NumFetches = attempts + 1
       /\ NumInLoop("pending") = attempts
       /\ NumReports("pending") =
            attempts + (IF variant = "commitStatus" THEN 1 ELSE 0)
       /\ NumReports("success") =
            (IF variant = "commitStatus" THEN 2 ELSE 1)
       /\ NumReports("failure") = 0
       /\ \A i \in FetchIdx : \A j \in ReportIdx :
            calls[j].state = "success" => i < j
       /\ \A i \in FetchIdx : i + 1 \in InLoopIdx

C5_Witness ==
  /\ pc = "returned"
  /\ status = "success"
  /\ attempts = 2
  /\ NumInLoop("pending") = 2

(* ------------------------------- C6 ------------------------------------ *)
IsConfirm(c) ==
  IsReport(c) /\ c.description \in {"Deploy succeeded", "Deploy failed"}

NumConfirms == Cardinality({ i \in 1..Len(calls) : IsConfirm(calls[i]) })

TerminalOutputs ==
  { i \in 1..Len(outputs) : outputs[i].name \in TerminalStates }

(* C6 as stated: after any terminal outcome the run has made exactly one   *)
(* confirming report with the terminal description and has set the output  *)
(* named after the outcome.                                                *)
C6_Original ==
  (pc = "returned")
    => /\ NumConfirms = 1
       /\ IsConfirm(LastCall)
       /\ LastCall.state = status
       /\ \E i \in 1..Len(outputs) :
            outputs[i].name = status /\ outputs[i].value = <<status>>

(* C6: a run that returns with outcome success or failure has set the      *)
(* output named after the outcome, to the outcome, exactly once; in the    *)
(* commit-status variant its last two calls are the in-loop report and     *)
(* exactly one confirming report ('Deploy succeeded' / 'Deploy failed')    *)
(* of that outcome, in the deployment variants the in-loop report is the   *)
(* last call and there is no confirming report; a run that returns with    *)
(* outcome error / inactive ends with the in-loop report, sets no terminal *)
(* output and makes no confirming report.                                  *)
C6_TerminalReportsAndOutput ==
  (pc = "returned")
    => /\ status \in TerminalStates
       /\ failed = <<>>
       /\ status \in {"success", "failure"}
            => /\ Cardinality(TerminalOutputs) = 1
               /\ outputs[Len(outputs)] = [name |-> status, value |-> <<status>>]
               /\ IF variant = "commitStatus"
                  THEN /\ NumConfirms = 1
                       /\ IsConfirm(LastCall)
                       /\ LastCall.state = status
                       /\ LastCall.description =
                            (IF status = "success" THEN "Deploy succeeded"
                             ELSE "Deploy failed")
                       /\ Len(calls) - 1 \in InLoopIdx
                       /\ calls[Len(calls) - 1].state = status
                  ELSE /\ NumConfirms = 0
                       /\ Len(calls) \in InLoopIdx
                       /\ LastCall.state = status
       /\ status \in {"error", "inactive"}
            => /\ TerminalOutputs = {}
               /\ NumConfirms = 0
               /\ Len(calls) \in InLoopIdx
               /\ LastCall.state = status

C6_Witness ==
  /\ pc = "returned"
  /\ variant = "commitStatus"
  /\ status = "failure"
  /\ IsConfirm(LastCall)
  /\ TerminalOutputs # {}

(* ------------------------------- C7 ------------------------------------ *)
LastReport == calls[CHOOSE i \in ReportIdx : \A j \in ReportIdx : j <= i]

(* C7: when the fetched status was live, the last report of the run points *)
(* its target / environment URL at the server URL of the comment.          *)
C7_LiveEndsOnServerUrl ==
  (pc = "returned" /\ status = "success")
    => (IF variant = "commitStatus"
        THEN LastReport.target_url = identity.serverUrl
        ELSE LastReport.environment_url = identity.serverUrl)

(* ------------------------------- C8 ------------------------------------ *)
(* C8: when the fetched status was build_failed, the last report of the    *)
(* run has state failure, description 'Build failed' or 'Deploy failed',   *)
(* and its target / log URL is the dashboard URL, not the server URL.      *)
C8_BuildFailedEndsOnDashboardUrl ==
  (pc = "returned" /\ status = "failure")
    => /\ LastReport.state = "failure"
       /\ LastReport.description \in {"Build failed", "Deploy failed"}
       /\ (IF variant = "commitStatus"
           THEN LastReport.target_url = identity.dashboardUrl
           ELSE LastReport.log_url = identity.dashboardUrl)
       /\ identity.serverUrl \notin UrlsOf(LastReport)

(* ------------------------------- C9 ------------------------------------ *)
(* C9: a report carries the server URL only if its state is success, and   *)
(* every report with state pending, failure, error or inactive carries     *)
(* the dashboard URL.                                                      *)
C9_ServerUrlOnlyOnSuccess ==
  \A i \in ReportIdx :
    /\ identity.serverUrl \in UrlsOf(calls[i]) => calls[i].state = "success"
    /\ calls[i].state # "success"
         => identity.dashboardUrl \in UrlsOf(calls[i])

(* ------------------------------- C10 ----------------------------------- *)
LacksMarker ==
  /\ commentBody # <<>>
  /\ \A i \in 1..Len(commentBody) :
       commentBody[i].a #
         (IF variant = "deploymentV1"
          THEN "Your Render PR Server URL is "
          ELSE "Your [Render](https://render.com) PR Server URL is ")

(* C10: a run on a non-empty comment without the marker phrase ends in     *)
(* its first step as a skip: no output is set, no call to the provider or  *)
(* the source-control platform is made, the invocation is not marked       *)
(* failed, and nothing happens afterwards.                                 *)
C10_UnmarkedCommentIsSkipped ==
  [][ /\ (LacksMarker /\ pc = "start" /\ pc' # pc)
        => pc' = "skipped"
      /\ (pc' = "skipped")
        => /\ LacksMarker
           /\ outputs' = <<>>
           /\ calls' = <<>>
           /\ failed' = <<>> ]_vars

C10_Witness ==
  /\ pc = "skipped"
  /\ commentBody # <<>>
  /\ \E i \in 1..Len(commentBody) : commentBody[i].kind = "dash"
  /\ outputs = <<>>
  /\ calls = <<>>

(* ------------------------------- C11 ----------------------------------- *)
(* the first of server URL, service name, service id that the comment      *)
(* does not contain ("" when it contains all three)                        *)
FirstMissingError ==
  IF ~\E i \in 1..Len(commentBody) - 1 :
        commentBody[i].kind = "phrase" /\ commentBody[i + 1].kind = "server"
  THEN "No server URL found"
  ELSE IF ~\E i \in 1..Len(commentBody) :
             commentBody[i].kind = "dash" /\ commentBody[i].a # ""
  THEN "No service name found"
  ELSE IF ~\E i \in 1..Len(commentBody) :
             commentBody[i].kind = "dash" /\ commentBody[i].b # ""
  THEN "No service ID found"
  ELSE ""

(* C11: in the variants with parseCommentBody, a run on a comment that     *)
(* has the marker phrase but lacks the server URL, the service name or the *)
(* service id fails with the error of the first missing field, sets no     *)
(* output and makes no call.                                               *)
C11_ParseFailureNamesFirstMissingField ==
  ( /\ variant # "deploymentV1"
    /\ commentBody # <<>>
    /\ ~LacksMarker
    /\ FirstMissingError # ""
    /\ pc # "start" )
    => /\ pc = "failed"
       /\ failed = <<FirstMissingError>>
       /\ outputs = <<>>
       /\ calls = <<>>

(* ------------------------------- C12 ----------------------------------- *)
(* C12: a call that fails is the last call of the run (no retry, no        *)
(* further fetch or report), and the invocation is marked failed exactly   *)
(* once, with the message of the error the call threw; nothing changes     *)
(* after that.                                                             *)
C12_UpstreamFailureEndsRunOnce ==
  [][ /\ (Len(calls') > Len(calls))
        => /\ Len(calls') = Len(calls) + 1
           /\ calls = <<>> \/ calls[Len(calls)].ok
           /\ calls'[Len(calls')].ok => calls'[Len(calls')].error = ""
           /\ ~calls'[Len(calls')].ok
                => /\ pc' = "failed"
                   /\ calls'[Len(calls')].error \in
                        {"Request failed with status code 500",
                         "Network Error"}
                   /\ failed' = <<calls'[Len(calls')].error>>
                   /\ outputs' = outputs
      /\ (pc = "failed")
        => /\ pc' = "failed"
           /\ Len(failed) = 1
           /\ UNCHANGED <<calls, failed, outputs>>
      /\ (pc' # "failed") => failed' = <<>> ]_vars

C12_Witness ==
  /\ pc = "failed"
  /\ Len(calls) > 4
  /\ IsFetch(LastCall)
  /\ ~LastCall.ok
  /\ failed = <<"Network Error">>

(* ------------------------------- C13 ----------------------------------- *)
RecordOrTerminalOutputs ==
  { i \in 1..Len(outputs) :
      outputs[i].name \in {"status-id", "deployment-id", "success", "failure"} }

(* C13: when the listing call returns an empty list the run fails with     *)
(* 'No deploys found'; the listing is then the only call of the run (no    *)
(* record, no deployment, no status fetch) and no status-id, deployment-id *)
(* or terminal output is set.                                              *)
C13_EmptyListingFails ==
  [][ /\ ( /\ pc = "list"
           /\ Len(calls') > Len(calls)
           /\ calls'[Len(calls')].ok
           /\ data' = <<>> )
        => /\ pc' = "failed"
           /\ failed' = <<"No deploys found">>
           /\ deploy' = deploy
      /\ (failed' = <<"No deploys found">>)
        => /\ Len(calls') = 1
           /\ calls'[1].api = "render.listDeploys"
           /\ calls'[1].ok
           /\ recordId' = ""
           /\ RecordOrTerminalOutputs' = {} ]_vars

C13_Witness ==
  /\ pc = "failed"
  /\ failed = <<"No deploys found">>
  /\ Len(calls) = 1
  /\ LastCall.ok
  /\ Len(outputs) = 4

(* ------------------------------- C14 ----------------------------------- *)
(* C14: the deploy selected from a non-empty fetched list is an entry of   *)
(* the list whose createdAt is the maximum of the list, whatever the order *)
(* of the list; it is never replaced afterwards, and every status fetch    *)
(* and every commit-status context uses its id.                            *)
C14_NewestDeployObserved ==
  [][ /\ (pc = "list" /\ pc' = "create")
        => /\ data' # <<>>
           /\ \E i \in 1..Len(data') : data'[i] = deploy'
           /\ \A j \in 1..Len(data') :
                data'[j].createdAt <= deploy'.createdAt
      /\ (pc # "list") => deploy' = deploy
      /\ (Len(calls') > Len(calls) /\ IsFetch(calls'[Len(calls')]))
        => /\ deploy.id # ""
           /\ calls'[Len(calls')].key = <<identity.serviceId, deploy.id>>
      /\ ( /\ Len(calls') > Len(calls)
           /\ calls'[Len(calls')].api = "createCommitStatus" )
        => /\ deploy.id # ""
           /\ calls'[Len(calls')].key[3] = deploy.id ]_vars

C14_Witness ==
  /\ pc = "create"
  /\ Len(data) = 2
  /\ data[1].createdAt < data[2].createdAt
  /\ deploy = data[2]

(* ------------------------------- C15 ----------------------------------- *)
(* C15: every commit-status write of a run has the same context and the    *)
(* same sha; in the deployment variants at most one deployment is created, *)
(* and every deployment-status write follows its creation and carries the  *)
(* id of that deployment.                                                  *)
C15_OneRecordLineage ==
  [][ (Len(calls') > Len(calls))
        => LET c == calls'[Len(calls')]
           IN /\ (c.api = "createCommitStatus")
                   => /\ variant = "commitStatus"
                      /\ c.sha = "sha-head"
                      /\ \A i \in 1..Len(calls) :
                           calls[i].api = "createCommitStatus"
                             => calls[i].key = c.key /\ calls[i].sha = c.sha
              /\ (c.api = "createDeployment")
                   => /\ variant # "commitStatus"
                      /\ \A i \in 1..Len(calls) :
                           calls[i].api # "createDeployment"
              /\ (c.api = "createDeploymentStatus")
                   => /\ variant # "commitStatus"
                      /\ recordId # ""
                      /\ c.key = <<recordId>>
                      /\ Cardinality({ i \in 1..Len(calls) :
                           calls[i].api = "createDeployment"
                           /\ calls[i].ok }) = 1
                      /\ \A i \in 1..Len(calls) :
                           calls[i].api = "createDeploymentStatus"
                             => calls[i].key = c.key ]_vars

C15_Witness ==
  /\ pc = "returned"
  /\ variant = "commitStatus"
  /\ status = "success"
  /\ Cardinality({ i \in 1..Len(calls) :
                     calls[i].api = "createCommitStatus" }) >= 4
  /\ \A i, j \in 1..Len(calls) :
       (calls[i].api = "createCommitStatus"
          /\ calls[j].api = "createCommitStatus")
         => calls[i].key = calls[j].key

(* ------------------------------- C16 ----------------------------------- *)
(* C16: the budget of the exhaustion check is the max-attempts input, and  *)
(* DefaultMaxAttempts when it is not set (a run is exhausted when the      *)
(* counter first exceeds it); the wait between polls is the interval       *)
(* input, and DefaultInterval when it is not set.                          *)
C16_ConfiguredBudgetAndInterval ==
  /\ (pc = "exhausted")
       => attempts = (IF maxAttemptsInput = <<>> THEN DefaultMaxAttempts
                      ELSE maxAttemptsInput[1]) + 1
  /\ (waitTimer = "running")
       => waitMs = (IF intervalInput = <<>> THEN DefaultInterval
                    ELSE intervalInput[1])

(* ------------------------------- C17 ----------------------------------- *)
(* C17: no status fetch begins while the timer of the wait started in the  *)
(* previous iteration is still running.                                    *)
C17_FetchWaitsForTimer ==
  [][ (Len(calls') > Len(calls) /\ IsFetch(calls'[Len(calls')]))
        => waitTimer = "idle" ]_vars

(* ------------------------------- C18 ----------------------------------- *)
(* the reports of the outcome made after fetch i and before the next       *)
(* fetch or the end of the run                                             *)
OutcomeReportsAfter(i) ==
  { j \in i + 1..Len(calls) :
      /\ calls[j].api \in {"createCommitStatus", "createDeploymentStatus"}
      /\ calls[j].description # ExceededText
      /\ \A k \in i + 1..j : ~IsFetch(calls[k]) }

(* C18 as stated: at the end of a run whose calls all succeeded, every     *)
(* status fetch has been followed by exactly one report of the outcome     *)
(* before the next fetch or the end of the run.                            *)
C18_Original ==
  (pc \in {"returned", "exhausted"})
    => \A i \in 1..Len(calls) :
         (IsFetch(calls[i]) /\ calls[i].ok)
           => Cardinality(OutcomeReportsAfter(i)) = 1

(* C18: the call after a successful status fetch is always the in-loop     *)
(* report of the current outcome, and a run never ends on a successful     *)
(* fetch; a status fetch never follows another fetch: it follows the       *)
(* creation of the record or an in-loop report of pending; the only other  *)
(* outcome report is the confirming report of the commit-status variant,   *)
(* which follows an in-loop report of success or failure.                  *)
C18_FetchThenInLoopReport ==
  [][ /\ (Len(calls') > Len(calls))
        => LET n == Len(calls)
               c == calls'[Len(calls')]
           IN /\ IsFetch(c)
                   => /\ n >= 1
                      /\ ~IsFetch(calls[n])
                      /\ calls[n].ok
                      /\ calls[n].api \in {"createCommitStatus",
                                           "createDeployment",
                                           "createDeploymentStatus"}
                      /\ (n >= 2 /\ IsFetch(calls[n - 1]))
                           => calls[n].state = "pending"
                      /\ (n >= 2 /\ ~IsFetch(calls[n - 1]))
                           => calls[n].description
                                = "Preview deployment on Render"
              /\ (n >= 1 /\ IsFetch(calls[n]))
                   => /\ calls[n].ok
                      /\ c.api \in {"createCommitStatus",
                                    "createDeploymentStatus"}
                      /\ c.state = status
                      /\ c.description \notin
                           {"Deploy succeeded", "Deploy failed", ExceededText}
              /\ (c.description \in {"Deploy succeeded", "Deploy failed"})
                   => /\ variant = "commitStatus"
                      /\ n >= 2
                      /\ IsFetch(calls[n - 1])
                      /\ calls[n].ok
                      /\ c.state = calls[n].state
                      /\ c.state \in {"success", "failure"}
      /\ ( /\ pc' \in {"returned", "exhausted", "failed", "skipped"}
           /\ calls' # <<>>
           /\ IsFetch(calls'[Len(calls')]) )
        => ~calls'[Len(calls')].ok ]_vars

C18_Witness ==
  /\ pc = "loop"
  /\ Len(calls) >= 6
  /\ IsFetch(calls[Len(calls) - 1])
  /\ IsFetch(calls[Len(calls) - 3])
  /\ LastCall.ok
  /\ LastCall.state = "pending"
  /\ calls[Len(calls) - 2].state = "pending"

(* ------------------------------- C19 ----------------------------------- *)
FinalPcs == {"skipped", "failed", "exhausted", "returned"}

(* C19 as stated, for the runs that return from the polling loop: the run  *)
(* ends in success or failure (budget exhaustion is pc = "exhausted").     *)
C19_Original ==
  (pc = "returned") => status \in {"success", "failure"}

(* C19: when every call returns or throws, every invocation eventually     *)
(* terminates; a run that returns from the polling loop ends in success,   *)
(* failure or the outcome of a deactivated deploy (error, inactive), a run *)
(* that exhausts the budget ends pending, and once the record exists the   *)
(* only other end is the failure of a call.                                *)
C19_TerminatesInFinalOutcome ==
  /\ <>(pc \in FinalPcs)
  /\ [](pc = "returned"
          => status \in {"success", "failure", "error", "inactive"})
  /\ [](pc = "returned" /\ status \in {"error", "inactive"}
          => status = (IF variant = "commitStatus" THEN "error"
                       ELSE "inactive"))
  /\ [](pc = "exhausted" => status = "pending")
  /\ [](pc = "failed" /\ recordId # "" => ~LastCall.ok)

C19_Witness ==
  /\ pc = "returned"
  /\ status \in {"error", "inactive"}
  /\ attempts >= 1

(* ------------------------------- C20 ----------------------------------- *)
IdentityNames == {"server-url", "service-name", "service-id", "dashboard-url"}

(* the identity outputs of a comment, read off its tokens *)
IdentityOutputsOf(body) ==
  LET s == CHOOSE i \in 1..Len(body) : body[i].kind = "server"
      d == CHOOSE i \in 1..Len(body) : body[i].kind = "dash"
  IN << [name |-> "server-url", value |-> <<body[s].a>>],
        [name |-> "service-name", value |-> <<body[d].a>>],
        [name |-> "service-id", value |-> <<body[d].b>>],
        [name |-> "dashboard-url",
         value |-> <<"https://dashboard.render.com",
                     body[d].a, body[d].b>>] >>

C21_TerminalOutputOnceAfterTerminalFetch ==
  [][ /\ (Len(outputs') > Len(outputs)
            /\ outputs'[Len(outputs')].name \in {"success", "failure"})
        => LET k == outputs'[Len(outputs')].name
               m == Len(calls')
           IN /\ Len(outputs') = Len(outputs) + 1
              /\ TerminalOutputs = {}
              /\ outputs'[Len(outputs')].value = <<k>>
              /\ status = k
              /\ pc' = "returned"
              /\ failed' = <<>>
              /\ m > Len(calls)
              /\ calls'[m].ok
              /\ calls'[m].api \in {"createCommitStatus",
                                    "createDeploymentStatus"}
              /\ calls'[m].state = k
              /\ calls'[m].description # ExceededText
              /\ IF variant = "commitStatus"
                 THEN /\ m >= 3
                      /\ calls'[m - 1].ok
                      /\ calls'[m - 1].state = k
                      /\ IsFetch(calls'[m - 2])
                      /\ calls'[m - 2].ok
                 ELSE /\ m >= 2
                      /\ IsFetch(calls'[m - 1])
                      /\ calls'[m - 1].ok
                      /\ deployStatus = (IF k = "success" THEN "live"
                                         ELSE "build_failed")
      /\ ( /\ Len(calls') > Len(calls)
           /\ calls # <<>>
           /\ IsFetch(calls[Len(calls)])
           /\ calls'[Len(calls')].state \in {"success", "failure"} )
        => deployStatus = (IF calls'[Len(calls')].state = "success"
                           THEN "live" ELSE "build_failed")
      /\ ( \/ pc' \in {"skipped", "failed", "exhausted"}
           \/ (pc' = "returned" /\ status' \in {"error", "inactive"}) )
        => TerminalOutputs' = {}
      /\ (pc \in {"skipped", "failed", "exhausted", "returned"})
        => outputs' = outputs
      /\ Cardinality(TerminalOutputs') <= 1 ]_vars

C21_Witness ==
  /\ pc = "returned"
  /\ attempts >= 1
  /\ Cardinality(TerminalOutputs) = 1
  /\ outputs[Len(outputs)] = [name |-> "failure", value |-> <<"failure">>]
  /\ LastCall.state = "failure"
  /\ LastCall.ok

(* ------------------------------- C22 ----------------------------------- *)
IsInitialRecord(c) ==
  \/ c.api = "createDeployment"
  \/ (c.api = "createCommitStatus"
        /\ c.description = "Preview deployment on Render")

(* C22: the initial record is created at most once per run, as the second  *)
(* call, right after a successful listing that was not empty; every status *)
(* fetch and every status report comes after its successful creation.      *)
C22_InitialRecordOnceBeforePolling ==
  [][ (Len(calls') > Len(calls))
        => LET c == calls'[Len(calls')]
           IN /\ IsInitialRecord(c)
                   => /\ Len(calls) = 1
                      /\ calls[1].api = "render.listDeploys"
                      /\ calls[1].ok
                      /\ data # <<>>
                      /\ \E i \in 1..Len(data) : data[i] = deploy
                      /\ c.api = (IF variant = "commitStatus"
                                  THEN "createCommitStatus"
                                  ELSE "createDeployment")
                      /\ \A i \in 1..Len(calls) : ~IsInitialRecord(calls[i])
              /\ (c.api = "render.listDeploys") => calls = <<>>
              /\ ( \/ IsFetch(c)
                   \/ (c.api \in {"createCommitStatus",
                                  "createDeploymentStatus"}
                         /\ ~IsInitialRecord(c)) )
                   => /\ Len(calls) >= 2
                      /\ IsInitialRecord(calls[2])
                      /\ calls[2].ok
                      /\ recordId # ""
                      /\ \A i \in 3..Len(calls) : ~IsInitialRecord(calls[i]) ]_vars

C22_Witness ==
  /\ Len(calls) >= 4
  /\ calls[1].api = "render.listDeploys"
  /\ IsInitialRecord(calls[2])
  /\ IsFetch(calls[3])
  /\ ~IsInitialRecord(calls[4])
  /\ calls[4].api = "createDeploymentStatus"
  /\ Cardinality({ i \in 1..Len(calls) : IsInitialRecord(calls[i]) }) = 1

====
